---- MODULE Spec2Model ----
(***************************************************************************)
(* cargo-reaper: the `run` command (src/src/command/run.rs).               *)
(*                                                                         *)
(* One run of `cargo reaper run`: the REAPER executable is resolved, the   *)
(* target (and, with --headless, Xvfb before it) is spawned, and the       *)
(* supervisor either blocks on the children or polls them once a second    *)
(* until the target exits, the window is located or the timeout elapses.   *)
(* Every system call of the supervisor is one step, so that the target,    *)
(* the display server and the window can change between two calls.         *)
(* Time is counted in ticks of 1/TicksPerSec second and passes in the      *)
(* sleep of the poll loop; both copies of the supervision code (direct and *)
(* the run_global_default ones) are the same text and share the actions.   *)
(***************************************************************************)
EXTENDS Integers, Sequences, FiniteSets, TLC

\* ------------------------------------------------------------------ bounds
MaxTimeout == 4         \* largest --timeout, in ticks
TicksPerSec == 2        \* resolution of the clock
MaxSpawnDelay == 1      \* longest time a spawn takes, in ticks
MaxSearchDelay == 1     \* longest time an xdotool search takes, in ticks
MaxDepth == 2           \* deepest start directory, in components below the root

\* --------------------------------------------------------------- constants
PollIntervalSecs == 1   \* thread::sleep(time::Duration::from_secs(1))

PollTicks == PollIntervalSecs * TicksPerSec

VARIABLES
    cfg,            \* the arguments of the run (cli.rs, CargoReaperCommand::Run)
    resolved,       \* how the executable was found: "" before the lookup
    pc,             \* position of the supervising thread
    reaper,         \* the target process::Child
    xvfb,           \* the display-server process::Child
    exit_code,      \* `let mut exit_code: i32` of the headless timeout loop
    kae,            \* the running kill_and_exit call: its code and position
    now,            \* the clock, in ticks
    start,          \* `start`: time::Instant::now() taken after the spawn
    window,         \* TRUE when the target's window exists on the display
    locatable,      \* what an xdotool search yields at this iteration's locator step
    found,          \* TRUE once xdotool has reported success
    cause,          \* the terminal condition met: "" (none yet), "window", "exit", "timeout"
    spawned,        \* the commands spawned so far: child |-> its arguments and spawn time
    xdotool,        \* the window-locator child of the current search
    trace,          \* the calls the supervisor has made, in order
    err,            \* the call whose OS error ended the run, "" if none
    outcome,        \* "running", "ok" (run returned Ok), "err" (returned Err), "forced" (process::exit)
    tool_exit,      \* exit status of cargo-reaper once outcome # "running"
    search_ticks,   \* time the xdotool search of this loop iteration took, 0 if none
    user_plugins,   \* the UserPlugins directory: whether it exists, and its entries
    last,           \* the last call on UserPlugins: its arguments, result and the directory before
    built,          \* the plugin libraries that exist in the target directories
    ancestors,      \* the directories from the root down to the start directory
    current_dir,    \* `current_dir` of find_project_root: an index into ancestors
    project         \* where the project lookup is, its root and its config file

runVars == <<cfg, resolved, pc, reaper, xvfb, exit_code, kae, now, start, window,
             locatable, found, cause, spawned, xdotool, trace, err, outcome,
             tool_exit, search_ticks>>

projVars == <<ancestors, current_dir, project>>

fsVars == <<user_plugins, last, built, projVars>>

vars == <<runVars, fsVars>>

ProcStates == {"none", "running", "exited", "reaped"}

\* `const DEFAULT_XSERVER_DISPLAY: &str = ":99";`
DEFAULT_XSERVER_DISPLAY == ":99"

\* Values of --display, and of (--stdin, --stdout, --stderr).
Displays == {DEFAULT_XSERVER_DISPLAY, ":1"}
StdioPolicies == {<<"null", "inherit", "inherit">>, <<"piped", "piped", "null">>}

\* The combinations of arguments clap accepts: --locate-window requires
\* --headless, --keep-going requires --headless, --locate-window and --timeout.
\* override_binary: --exec was given; on_path: which("reaper") finds a
\* binary; global_default: the platform's global lookup finds one.
\* run() takes no display, so it is left at its default without --headless.
Configs ==
    { c \in [headless : BOOLEAN, has_timeout : BOOLEAN, timeout : 0..MaxTimeout,
             window_title : BOOLEAN, keep_going : BOOLEAN,
             override_binary : BOOLEAN, on_path : BOOLEAN,
             global_default : BOOLEAN, display : Displays,
             stdio : StdioPolicies] :
        /\ (c.window_title => c.headless)
        /\ (~c.headless => c.display = DEFAULT_XSERVER_DISPLAY)
        /\ (c.keep_going => (c.headless /\ c.window_title /\ c.has_timeout))
        /\ (~c.has_timeout => c.timeout = 0) }

\* No call on UserPlugins has been made.
NoCall == [op |-> "none"]

\* No project lookup is made.
NoProject == [pc |-> "idle", root |-> 0, config_file |-> ""]

Init ==
    /\ cfg \in Configs
    /\ resolved = ""
    /\ pc = "resolve"
    /\ reaper = "none"
    /\ xvfb = "none"
    /\ exit_code = 0
    /\ kae = [code |-> 0, idx |-> 0]
    /\ now = 0
    /\ start = 0
    /\ window = FALSE
    /\ locatable = FALSE
    /\ found = FALSE
    /\ cause = ""
    /\ spawned = <<>>
    /\ xdotool = "none"
    /\ trace = <<>>
    /\ err = ""
    /\ outcome = "running"
    /\ tool_exit = 0
    /\ search_ticks = 0
    /\ user_plugins = [exists |-> FALSE, entries |-> <<>>]
    /\ last = NoCall
    /\ built = {}
    /\ ancestors = <<>>
    /\ current_dir = 0
    /\ project = NoProject

Did(op) == \E i \in DOMAIN trace : trace[i] = op

\* Position of the first occurrence of op in the trace, 0 if there is none.
FirstIdx(op) ==
    IF Did(op) THEN CHOOSE i \in DOMAIN trace :
                        trace[i] = op /\ \A j \in 1..(i - 1) : trace[j] # op
    ELSE 0

\* ------------------------------------------------------- std::process::Child
\* Child::kill: SIGKILL; a no-op on a child that has already exited.
Kill(p) == IF p = "running" THEN "exited" ELSE p

\* Child::wait / a successful try_wait can collect the status of an exited child.
CanReap(p) == p \in {"exited", "reaped"}

\* ----------------------------------------------------- how a run comes back
\* `main` returns the anyhow::Result of the command: Ok is exit status 0,
\* Err is exit status 1.
ReturnOk ==
    /\ pc' = "done"
    /\ outcome' = "ok"
    /\ tool_exit' = 0
    /\ err' = err

ReturnErr(op) ==
    /\ pc' = "done"
    /\ outcome' = "err"
    /\ tool_exit' = 1
    /\ err' = op

Continue(next) ==
    /\ pc' = next
    /\ UNCHANGED <<outcome, tool_exit, err>>

\* ------------------------------------------------------ executable resolver
\* Variant of ResolveExecutable that prefers the binary on the search path.
ResolveExecutable_path_first(override, on_path, global) ==
    IF on_path THEN "path"
    ELSE IF override THEN "override"
    ELSE IF global THEN "global" ELSE "none"

\* override_binary.or_else(|| which::which(BINARY_NAME).ok()), and when both
\* are None run_global_default with util::os::locate_global_default().
ResolveExecutable(override, on_path, global) ==
    IF override THEN "override"
    ELSE IF on_path THEN "path"
    ELSE IF global THEN "global" ELSE "none"

\* The lookups made on the way: or_else and map_or_else evaluate their
\* closure only when the value before them is None.
Lookups(override, on_path) ==
    IF override THEN <<>>
    ELSE IF on_path THEN <<"which">> ELSE <<"which", "which_global">>

\* The head of run / run_headless.  Without an executable the NotFound error
\* of _locate_global_default comes back (its text names `--exec <PATH>`).
Resolve ==
    /\ pc = "resolve"
    /\ UNCHANGED fsVars
    /\ resolved' = ResolveExecutable(cfg.override_binary, cfg.on_path,
                                     cfg.global_default)
    /\ trace' = trace \o Lookups(cfg.override_binary, cfg.on_path)
    /\ IF resolved' = "none"
       THEN ReturnErr("locate")
       ELSE Continue(IF cfg.headless THEN "spawn_xvfb" ELSE "spawn_reaper")
    /\ UNCHANGED <<cfg, reaper, xvfb, exit_code, kae, now, start, window,
                   locatable, found, cause, spawned, xdotool, search_ticks>>

\* --------------------------------------------------------- process launcher
Call(op) == trace' = Append(trace, op)

\* Variant of InitExitCode that starts at 1 (window not found yet) always.
InitExitCode_one(keep_going) == 1

\* Variant of InitExitCode with the two initial values swapped.
InitExitCode_swapped(keep_going) == IF keep_going THEN 0 ELSE 1

\* `let mut exit_code: i32 = keep_going.then_some(1).unwrap_or_default();`
InitExitCode(keep_going) == IF keep_going THEN 1 ELSE 0

\* Where the supervisor goes once the target is spawned: the blocking wait
\* without a timeout, else the poll loop (which starts with the locator step
\* in run_headless and with try_wait in run).
AfterSpawn ==
    IF ~cfg.has_timeout THEN "wait_reaper"
    ELSE IF cfg.headless THEN "locate" ELSE "try_wait"

\* The Xvfb command of run_reaper_headless:
\* Command::new("Xvfb").arg(display).args(XVFB_ARGS).env("DISPLAY", display)
\*     .stdin(stdin).stdout(stdout).stderr(stderr)
XvfbCommand(display, stdio) ==
    [program |-> "Xvfb", display_arg |-> display, screen |-> "1024x768x24",
     env_display |-> display, stdio |-> stdio]

\* Variant of ReaperCommand that does not export DISPLAY to the target.
ReaperCommand_no_display(headless, display, stdio) ==
    [program |-> "reaper", env_display |-> "inherited", stdio |-> stdio]

\* The target command: run_reaper sets no DISPLAY (the target inherits the
\* tool's), run_reaper_headless has .env("DISPLAY", display); both pass the
\* three stdio settings on.
ReaperCommand(headless, display, stdio) ==
    [program |-> "reaper",
     env_display |-> IF headless THEN display ELSE "inherited",
     stdio |-> stdio]

\* Variant of StartInstant that reads the clock before the spawn.
StartInstant_before(before, after) == before

\* `.map(|reaper| (reaper, time::Instant::now()))`: the clock is read once
\* the spawn has returned.
StartInstant(before, after) == after

\* ------------------- run_global_default and run_global_default_headless
\* When neither the override nor the search path gives the executable, run
\* and run_headless hand over to run_global_default and
\* run_global_default_headless, which have their own copy of the supervisor.
Impl(of_run, of_global_default) ==
    IF resolved = "global" THEN of_global_default ELSE of_run

\* `let mut exit_code: i32 = keep_going.then_some(1).unwrap_or_default();`
InitExitCode_global_default(keep_going) == IF keep_going THEN 1 ELSE 0

\* `.map(|(xvfb, reaper)| ((xvfb, reaper), time::Instant::now()))`
StartInstant_global_default(before, after) == after

\* timeout.map_or_else(|| wait .., |timeout| loop ..)
AfterSpawn_global_default ==
    IF ~cfg.has_timeout THEN "wait_reaper"
    ELSE IF cfg.headless THEN "locate" ELSE "try_wait"

\* `reaper.wait().and_then(|_| xvfb.wait())`, or `.wait()` alone
AfterWaitReaper_global_default == IF cfg.headless THEN "wait_xvfb" ELSE "done"

\* `thread::sleep(time::Duration::from_secs(1))`
PollIntervalSecs_global_default == 1

PollTicks_global_default == PollIntervalSecs_global_default * TicksPerSec

\* run_reaper_headless, first half: Command::new("Xvfb") ... .spawn()
SpawnXvfb ==
    /\ pc = "spawn_xvfb"
    /\ UNCHANGED fsVars
    /\ Call("spawn_xvfb")
    /\ \E d \in 0..MaxSpawnDelay : now' = now + d
    /\ \/ /\ xvfb' = "running"
          /\ spawned' = spawned @@
                ("xvfb" :> [cmd |-> XvfbCommand(cfg.display, cfg.stdio), at |-> now'])
          /\ Continue("spawn_reaper")
       \/ /\ UNCHANGED <<xvfb, spawned>>
          /\ ReturnErr("spawn_xvfb")
    /\ UNCHANGED <<cfg, resolved, reaper, exit_code, kae, start, window,
                   locatable, found, cause, xdotool, search_ticks>>

\* run_reaper, and the second half of run_reaper_headless:
\* Command::new(reaper) ... .spawn().  On failure `?` returns the error and
\* the Xvfb Child is dropped; dropping a Child neither kills nor waits.
SpawnReaper ==
    /\ pc = "spawn_reaper"
    /\ UNCHANGED fsVars
    /\ Call("spawn_reaper")
    /\ \E d \in 0..MaxSpawnDelay : now' = now + d
    /\ \/ /\ reaper' = "running"
          /\ spawned' = spawned @@
                ("reaper" :> [cmd |-> ReaperCommand(cfg.headless, cfg.display, cfg.stdio),
                              at |-> now'])
          /\ start' = Impl(StartInstant(now, now'),
                           StartInstant_global_default(now, now'))
          /\ exit_code' = IF cfg.headless /\ cfg.has_timeout
                          THEN Impl(InitExitCode(cfg.keep_going),
                                    InitExitCode_global_default(cfg.keep_going))
                          ELSE exit_code
          /\ Continue(Impl(AfterSpawn, AfterSpawn_global_default))
       \/ /\ UNCHANGED <<reaper, start, exit_code, spawned>>
          /\ ReturnErr("spawn_reaper")
    /\ UNCHANGED <<cfg, resolved, xvfb, kae, window, locatable, found, cause,
                   xdotool, search_ticks>>

\* ------------------------------------------------------ kill_and_exit
\* Variant of kill_and_exit_steps that tears the display server down first.
kill_and_exit_steps_xvfb_first ==
    <<"kill_xvfb", "wait_xvfb", "kill_reaper", "wait_reaper">>

\* reaper.kill().and_then(reaper.wait).and_then(xvfb.kill).and_then(xvfb.wait)
kill_and_exit_steps == <<"kill_reaper", "wait_reaper", "kill_xvfb", "wait_xvfb">>

\* Entering kill_and_exit(&mut reaper, &mut xvfb, code).
EnterKillAndExit(code) ==
    /\ pc' = "kill_and_exit"
    /\ kae' = [code |-> code, idx |-> 1]
    /\ UNCHANGED <<outcome, tool_exit, err>>

\* Variant of KaeThen that notes a failed call and carries on to the exit.
KaeThen_ignore_err(ok, op) ==
    /\ kae' = [kae EXCEPT !.idx = kae.idx + 1]
    /\ pc' = IF kae.idx < Len(kill_and_exit_steps_xvfb_first) THEN "kill_and_exit" ELSE "kae_exit"
    /\ err' = IF ok THEN err ELSE op
    /\ UNCHANGED <<outcome, tool_exit>>

\* What follows one kill or wait of kill_and_exit: and_then goes on to the
\* next call on Ok, `?` returns the error on Err; process::exit comes last.
KaeThen(ok, op) ==
    IF ~ok THEN ReturnErr(op) /\ kae' = kae
    ELSE /\ kae' = [kae EXCEPT !.idx = kae.idx + 1]
         /\ Continue(IF kae.idx < Len(kill_and_exit_steps)
                     THEN "kill_and_exit" ELSE "kae_exit")

KillAndExitStep ==
    /\ pc = "kill_and_exit"
    /\ UNCHANGED fsVars
    /\ LET op == kill_and_exit_steps[kae.idx] IN
        /\ Call(op)
        /\ \E ok \in BOOLEAN :
            /\ KaeThen(ok, op)
            /\ CASE ~ok -> UNCHANGED <<reaper, xvfb>>
                 [] op = "kill_reaper" -> reaper' = Kill(reaper) /\ xvfb' = xvfb
                 [] op = "wait_reaper" ->
                        CanReap(reaper) /\ reaper' = "reaped" /\ xvfb' = xvfb
                 [] op = "kill_xvfb" -> xvfb' = Kill(xvfb) /\ reaper' = reaper
                 [] op = "wait_xvfb" ->
                        CanReap(xvfb) /\ xvfb' = "reaped" /\ reaper' = reaper
    /\ window' = (window /\ reaper' = "running" /\ xvfb' = "running")
    /\ UNCHANGED <<cfg, resolved, exit_code, now, start, locatable, found, cause, spawned, xdotool, search_ticks>>

\* process::exit(exit_code)
KillAndExitExit ==
    /\ pc = "kae_exit"
    /\ UNCHANGED fsVars
    /\ Call("exit")
    /\ pc' = "done"
    /\ outcome' = "forced"
    /\ tool_exit' = kae.code
    /\ UNCHANGED <<cfg, resolved, reaper, xvfb, exit_code, kae, now, start,
                   window, locatable, found, cause, spawned, xdotool, search_ticks, err>>

\* ------------------------------------------------- supervisor, no timeout
\* Variant of AfterWaitReaper that returns without waiting on Xvfb.
AfterWaitReaper_no_xvfb == "done"

\* run: run_reaper(..)?.wait()
\* run_headless: reaper.wait().and_then(|_| xvfb.wait())
AfterWaitReaper == IF cfg.headless THEN "wait_xvfb" ELSE "done"

WaitReaper ==
    /\ pc = "wait_reaper"
    /\ UNCHANGED fsVars
    /\ Call("wait_reaper")
    /\ \/ /\ CanReap(reaper)
          /\ reaper' = "reaped"
          /\ LET next == Impl(AfterWaitReaper, AfterWaitReaper_global_default)
             IN  IF next = "done" THEN ReturnOk ELSE Continue(next)
       \/ /\ reaper' = reaper
          /\ ReturnErr("wait_reaper")
    /\ UNCHANGED <<cfg, resolved, xvfb, exit_code, kae, now, start, window,
                   locatable, found, cause, spawned, xdotool, search_ticks>>

\* Variant of XvfbWaitReturns: the wait ends a running Xvfb itself.
XvfbWaitReturns_ending == TRUE

\* `xvfb.wait()` of the run without a timeout returns Ok only once Xvfb has
\* exited; nothing in this path kills it.
XvfbWaitReturns == CanReap(xvfb)

\* run_headless without a timeout: `.and_then(|_| xvfb.wait())`
WaitXvfb ==
    /\ pc = "wait_xvfb"
    /\ UNCHANGED fsVars
    /\ Call("wait_xvfb")
    /\ \/ /\ XvfbWaitReturns
          /\ xvfb' = "reaped"
          /\ ReturnOk
       \/ /\ xvfb' = xvfb
          /\ ReturnErr("wait_xvfb")
    /\ UNCHANGED <<cfg, resolved, reaper, exit_code, kae, now, start, window,
                   locatable, found, cause, spawned, xdotool, search_ticks>>

\* ----------------------------------------------- supervisor, timeout loop
\* Variant of SearchGuard that searches in every iteration.
SearchGuard_always == TRUE

\* The guard of the window search: `if let Some(window_title) = &window_title`
\* and `exit_code != 0`.
SearchGuard == cfg.window_title /\ exit_code # 0

\* run_global_default_headless: `if let Some(window_title) = &window_title`
\* and `exit_code != 0`.
SearchGuard_global_default == cfg.window_title /\ exit_code # 0

\* Variant of OutputErr: the error of the search is returned by the run.
OutputErr_surfaced == ReturnErr("xdotool")

\* `.output()` returned Err (xdotool could not be spawned, or its output
\* could not be collected): `.unwrap_or(false)` makes the condition false
\* and the loop goes on to the poll.
OutputErr == Continue("try_wait")

\* Top of the loop of run_headless: the xdotool search is started with
\* Command::new("xdotool") ... .output().  When the guard is false nothing is
\* run; `locatable` then records what a search would have yielded.  A search
\* that cannot be started counts as a failure (`.unwrap_or(false)`).
Locate ==
    /\ pc = "locate"
    /\ UNCHANGED fsVars
    /\ IF Impl(SearchGuard, SearchGuard_global_default)
       THEN /\ Call("locate")
            /\ locatable' = FALSE
            /\ \/ xdotool' = "running" /\ Continue("locate_output")
               \/ xdotool' = "failed" /\ OutputErr
       ELSE /\ \E success \in {window, FALSE} : locatable' = success
            /\ Continue("try_wait")
            /\ UNCHANGED <<trace, xdotool>>
    /\ search_ticks' = 0
    /\ UNCHANGED <<cfg, resolved, reaper, xvfb, exit_code, kae, now, start,
                   window, found, cause, spawned>>

\* Variant of XdotoolAfterOutput: the search is started and not waited for.
XdotoolAfterOutput_unwaited == "running"

\* `.output()` returns when xdotool has exited and its status was collected.
XdotoolAfterOutput == "reaped"

\* The body of the search condition: `if keep_going { exit_code = 0; } else
\* { kill_and_exit(&mut reaper, &mut xvfb, 0)?; }`
AfterFound ==
    IF cfg.keep_going
    THEN /\ exit_code' = 0
         /\ Continue("try_wait")
         /\ UNCHANGED <<kae, cause>>
    ELSE /\ exit_code' = exit_code
         /\ cause' = "window"
         /\ EnterKillAndExit(0)

\* The same body in run_global_default_headless.
AfterFound_global_default ==
    IF cfg.keep_going
    THEN /\ exit_code' = 0
         /\ Continue("try_wait")
         /\ UNCHANGED <<kae, cause>>
    ELSE /\ exit_code' = exit_code
         /\ cause' = "window"
         /\ EnterKillAndExit(0)

\* .output() has waited for xdotool, which took some time, and either
\* collected its output or failed to.
\* `output.status.success()` holds only if the window exists.  On success --keep-going records it in exit_code,
\* otherwise kill_and_exit(.., 0) is called.
LocateOutput ==
    /\ pc = "locate_output"
    /\ UNCHANGED fsVars
    /\ \E d \in 0..MaxSearchDelay :
        /\ now' = now + d
        /\ search_ticks' = d
    /\ \/ /\ xdotool' = XdotoolAfterOutput
          /\ \E success \in {window, FALSE} :
              /\ locatable' = success
              /\ IF success
                 THEN /\ found' = TRUE
                      /\ Impl(AfterFound, AfterFound_global_default)
                 ELSE /\ Continue("try_wait")
                      /\ UNCHANGED <<found, cause, exit_code, kae>>
       \/ /\ xdotool' = "failed"
          /\ locatable' = FALSE
          /\ OutputErr
          /\ UNCHANGED <<found, cause, exit_code, kae>>
    /\ UNCHANGED <<cfg, resolved, reaper, xvfb, start, window, spawned, trace>>

\* Variant of TimedOut with a strict comparison.
TimedOut_strict == now - start > cfg.timeout

\* `start.elapsed() >= timeout`
TimedOut == now - start >= cfg.timeout

\* Variant of TryWaitErr: the target is killed and reaped after the error.
TryWaitErr_teardown ==
    /\ pc' = "fg_kill"
    /\ err' = "try_wait"
    /\ UNCHANGED <<outcome, tool_exit>>

\* Variant of TryWaitErr: the error is noted and the loop goes on.
TryWaitErr_retry ==
    /\ pc' = "sleep"
    /\ err' = "try_wait"
    /\ UNCHANGED <<outcome, tool_exit>>

\* The `?` of `reaper.try_wait()?`: an Err leaves the loop and the closure.
TryWaitErr == ReturnErr("try_wait")

\* Variant of AfterTimeout: the loop sleeps on after the timeout.
AfterTimeout_sleep == Continue("sleep") /\ kae' = kae

\* Variant of AfterTimeout: the supervisor blocks for good at the timeout.
AfterTimeout_hang == pc' = "hang" /\ UNCHANGED <<kae, outcome, tool_exit, err>>

\* The arm `None if start.elapsed() >= timeout`: kill_and_exit in
\* run_headless, `reaper.kill()?; break reaper.wait()` in run.
AfterTimeout ==
    IF cfg.headless
    THEN EnterKillAndExit(exit_code)
    ELSE Continue("fg_kill") /\ kae' = kae

\* Variant of PollArm that looks at the clock before the status.
PollArm_timeout_first ==
    IF TimedOut THEN "timeout"
    ELSE IF reaper = "exited" THEN "exit" ELSE "sleep"

\* The arm of `match reaper.try_wait()?` that is taken: the arms
\* `Some(_) ..` come first, then `None if start.elapsed() >= timeout`,
\* then `None`.
PollArm ==
    IF reaper = "exited" THEN "exit"
    ELSE IF TimedOut THEN "timeout" ELSE "sleep"

\* `start.elapsed() >= *timeout` of the global default functions.
TimedOut_global_default == now - start >= cfg.timeout

\* Variant of PollArm_global_default with the timeout arm first.
PollArm_global_default_clock_first ==
    IF TimedOut_global_default THEN "timeout"
    ELSE IF reaper = "exited" THEN "exit" ELSE "sleep"

\* The arms of the match in run_global_default_headless and
\* run_global_default, in their order.
PollArm_global_default ==
    IF reaper = "exited" THEN "exit"
    ELSE IF TimedOut_global_default THEN "timeout" ELSE "sleep"

\* `None if start.elapsed() >= *timeout` of the global default functions.
AfterTimeout_global_default ==
    IF cfg.headless
    THEN EnterKillAndExit(exit_code)
    ELSE Continue("fg_kill") /\ kae' = kae

\* The arms `Some(_) if window_title.is_some()` and `Some(status)` of
\* run_headless; run has the second only.
AfterExit ==
    IF cfg.headless /\ cfg.window_title
    THEN EnterKillAndExit(exit_code)
    ELSE ReturnOk /\ kae' = kae

\* The same arms in run_global_default_headless and run_global_default.
AfterExit_global_default ==
    IF cfg.headless /\ cfg.window_title
    THEN EnterKillAndExit(exit_code)
    ELSE ReturnOk /\ kae' = kae

\* `match reaper.try_wait()?` of run and of run_headless, and of the
\* global default functions.
TryWait ==
    /\ pc = "try_wait"
    /\ UNCHANGED fsVars
    /\ Call("try_wait")
    /\ \/ /\ TryWaitErr
          /\ UNCHANGED <<reaper, kae, cause>>
       \/ /\ Impl(PollArm, PollArm_global_default) = "exit"       \* Some(status)
          /\ reaper' = "reaped"
          /\ cause' = "exit"
          /\ Impl(AfterExit, AfterExit_global_default)
       \/ /\ Impl(PollArm, PollArm_global_default) # "exit"       \* None
          /\ reaper' = reaper
          /\ IF Impl(PollArm, PollArm_global_default) = "timeout"
             THEN /\ cause' = "timeout"
                  /\ Impl(AfterTimeout, AfterTimeout_global_default)
             ELSE /\ cause' = cause
                  /\ Continue("sleep") /\ kae' = kae
    /\ UNCHANGED <<cfg, resolved, xvfb, exit_code, now, start, window,
                   locatable, found, spawned, xdotool, search_ticks>>

\* thread::sleep(time::Duration::from_secs(1))
Sleep ==
    /\ pc = "sleep"
    /\ UNCHANGED fsVars
    /\ Call("sleep")
    /\ now' = now + Impl(PollTicks, PollTicks_global_default)
    /\ Continue(IF cfg.headless THEN "locate" ELSE "try_wait")
    /\ UNCHANGED <<cfg, resolved, reaper, xvfb, exit_code, kae, start, window,
                   locatable, found, cause, spawned, xdotool, search_ticks>>

\* run, timeout branch: `reaper.kill()?;`
FgKill ==
    /\ pc = "fg_kill"
    /\ UNCHANGED fsVars
    /\ Call("kill_reaper")
    /\ \/ /\ reaper' = Kill(reaper)
          /\ Continue("fg_wait")
       \/ /\ reaper' = reaper
          /\ ReturnErr("kill_reaper")
    /\ window' = (window /\ reaper' = "running")
    /\ UNCHANGED <<cfg, resolved, xvfb, exit_code, kae, now, start,
                   locatable, found, cause, spawned, xdotool, search_ticks>>

\* Variant of BreakWait: the tool exits at once with code 0.
BreakWait_forced ==
    /\ pc' = "done"
    /\ outcome' = "forced"
    /\ tool_exit' = 0
    /\ err' = err

\* `break reaper.wait()` with wait returning Ok: the loop yields the status
\* of the killed target and run returns Ok(()).
BreakWait == ReturnOk

\* run_global_default: `break reaper.wait()` with wait returning Ok.
BreakWait_global_default == ReturnOk

\* run, timeout branch: `break reaper.wait();`
FgWait ==
    /\ pc = "fg_wait"
    /\ UNCHANGED fsVars
    /\ Call("wait_reaper")
    /\ \/ /\ CanReap(reaper)
          /\ reaper' = "reaped"
          /\ Impl(BreakWait, BreakWait_global_default)
       \/ /\ reaper' = reaper
          /\ ReturnErr("wait_reaper")
    /\ UNCHANGED <<cfg, resolved, xvfb, exit_code, kae, now, start, window,
                   locatable, found, cause, spawned, xdotool, search_ticks>>

\* ------------------------------------------------------------ environment
\* The target exits on its own.
TargetExits ==
    /\ outcome = "running"
    /\ UNCHANGED fsVars
    /\ reaper = "running"
    /\ reaper' = "exited"
    /\ window' = FALSE
    /\ UNCHANGED <<cfg, resolved, pc, xvfb, exit_code, kae, now, start,
                   locatable, found, cause, spawned, xdotool, search_ticks, trace, err, outcome, tool_exit>>

\* The display server exits on its own.
XvfbExits ==
    /\ outcome = "running"
    /\ UNCHANGED fsVars
    /\ xvfb = "running"
    /\ xvfb' = "exited"
    /\ window' = FALSE
    /\ UNCHANGED <<cfg, resolved, pc, reaper, exit_code, kae, now, start,
                   locatable, found, cause, spawned, xdotool, search_ticks, trace, err, outcome, tool_exit>>

\* The target opens its window on the virtual display.
WindowAppears ==
    /\ outcome = "running"
    /\ UNCHANGED fsVars
    /\ reaper = "running"
    /\ xvfb = "running"
    /\ ~window
    /\ window' = TRUE
    /\ UNCHANGED <<cfg, resolved, pc, reaper, xvfb, exit_code, kae, now, start,
                   locatable, found, cause, spawned, xdotool, search_ticks, trace, err, outcome, tool_exit>>

Next ==
    \/ Resolve
    \/ SpawnXvfb
    \/ SpawnReaper
    \/ WaitReaper
    \/ WaitXvfb
    \/ Locate
    \/ LocateOutput
    \/ TryWait
    \/ Sleep
    \/ FgKill
    \/ FgWait
    \/ KillAndExitStep
    \/ KillAndExitExit
    \/ TargetExits
    \/ XvfbExits
    \/ WindowAppears

Spec == Init /\ [][Next]_vars

\* The steps of the supervising thread, as opposed to those of the target,
\* of Xvfb and of the window.
SupervisorStep ==
    \/ Resolve
    \/ SpawnXvfb
    \/ SpawnReaper
    \/ WaitReaper
    \/ WaitXvfb
    \/ Locate
    \/ LocateOutput
    \/ TryWait
    \/ Sleep
    \/ FgKill
    \/ FgWait
    \/ KillAndExitStep
    \/ KillAndExitExit

\* The run with a supervisor that keeps going: the thread is never
\* suspended for good, every call it can make returns and the sleep ends.
\* Nothing is assumed of the target, of Xvfb or of the window.
SpecLive == Spec /\ WF_vars(SupervisorStep)

\* ------------------------------------------------- the UserPlugins directory
\* A second specification: calls on the UserPlugins directory of REAPER,
\* started from any content the directory can have.  No process is run.

\* File names a plugin can have in UserPlugins (name plus platform suffix).
PluginFileNames == {"reaper_a.so", "reaper_b.so"}

\* Directories a built plugin library lies in.
TargetDirs == {"debug", "release"}

\* Paths of built plugin libraries.
PluginPaths == [dir : TargetDirs, name : PluginFileNames]

\* An entry of the directory: a symlink to a plugin path, or a regular file.
NoTarget == [dir |-> "", name |-> ""]
DirEntries == [kind : {"symlink"}, target : PluginPaths]
                \cup {[kind |-> "file", target |-> NoTarget]}

\* All functions from a subset of the file names to entries.
EntryMaps == UNION {[names -> DirEntries] : names \in SUBSET PluginFileNames}

\* The directory is absent, or exists with some entries.
UserPluginsDirs == {[exists |-> FALSE, entries |-> <<>>]}
                    \cup [exists : {TRUE}, entries : EntryMaps]

\* Path::is_symlink of user_plugins_dir.join(plugin_file_name).
IsSymlink(dir, plugin_file_name) ==
    /\ dir.exists
    /\ plugin_file_name \in DOMAIN dir.entries
    /\ dir.entries[plugin_file_name].kind = "symlink"

\* fs::remove_file on an entry of the directory.
RemoveFile(dir, plugin_file_name) ==
    [dir EXCEPT !.entries =
        [n \in DOMAIN dir.entries \ {plugin_file_name} |-> dir.entries[n]]]

\* A removal that does not look at dry_run.
RemovePluginSymlinkResult_no_dry_run(dir, plugin_file_name, dry_run, rm_ok) ==
    IF IsSymlink(dir, plugin_file_name)
    THEN IF rm_ok
         THEN [dir |-> RemoveFile(dir, plugin_file_name), result |-> "ok"]
         ELSE [dir |-> dir, result |-> "err"]
    ELSE [dir |-> dir, result |-> "err"]

\* _remove_plugin_symlink: the directory after the call and its result.
\* rm_ok says whether fs::remove_file, if called, succeeds.
RemovePluginSymlinkResult(dir, plugin_file_name, dry_run, rm_ok) ==
    IF IsSymlink(dir, plugin_file_name)
    THEN IF ~dry_run
         THEN IF rm_ok
              THEN [dir |-> RemoveFile(dir, plugin_file_name), result |-> "ok"]
              ELSE [dir |-> dir, result |-> "err"]
         ELSE [dir |-> dir, result |-> "ok"]
    ELSE [dir |-> dir, result |-> "err"]

\* One call of _remove_plugin_symlink.
RemovePluginSymlink ==
    /\ pc = "idle"
    /\ \E plugin_file_name \in PluginFileNames, dry_run \in BOOLEAN, rm_ok \in BOOLEAN :
        LET r == RemovePluginSymlinkResult(user_plugins, plugin_file_name, dry_run, rm_ok)
        IN  /\ user_plugins' = r.dir
            /\ last' = [op |-> "remove", names |-> {plugin_file_name},
                        dry_run |-> dry_run, failures |-> IF r.result = "ok" THEN 0 ELSE 1,
                        before |-> user_plugins]
    /\ built' = built
    /\ UNCHANGED projVars
    /\ UNCHANGED runVars

\* The removal loop of `cargo reaper clean` over the selected plugins: the
\* directory after it and the number of removals that returned an error.
\* failing is the set of names on which fs::remove_file fails.
RECURSIVE CleanLoop(_, _, _, _, _)
CleanLoop(dir, plugins, dry_run, failing, removal_failures) ==
    IF plugins = {}
    THEN [dir |-> dir, removal_failures |-> removal_failures]
    ELSE LET plugin == CHOOSE n \in plugins : TRUE
             r == RemovePluginSymlinkResult(dir, plugin, dry_run, plugin \notin failing)
         IN  CleanLoop(r.dir, plugins \ {plugin}, dry_run, failing,
                       removal_failures + (IF r.result = "ok" THEN 0 ELSE 1))

\* `cargo reaper clean` without --remove-artifacts.
Clean ==
    /\ pc = "idle"
    /\ \E plugins \in SUBSET PluginFileNames \ {{}}, dry_run \in BOOLEAN :
       \E failing \in SUBSET plugins :
        LET r == CleanLoop(user_plugins, plugins, dry_run, failing, 0)
        IN  /\ user_plugins' = r.dir
            /\ last' = [op |-> "clean", names |-> plugins, dry_run |-> dry_run,
                        failures |-> r.removal_failures, before |-> user_plugins]
    /\ built' = built
    /\ UNCHANGED projVars
    /\ UNCHANGED runVars

\* Path::exists of user_plugins_dir.join(file_name): it follows a symlink,
\* and so is false for a link whose target is not there.
PathExists(dir, file_name, libs) ==
    /\ dir.exists
    /\ file_name \in DOMAIN dir.entries
    /\ \/ dir.entries[file_name].kind = "file"
       \/ dir.entries[file_name].target \in libs

\* Whether anything, a dangling link included, has that name in the directory.
Occupied(dir, file_name) == dir.exists /\ file_name \in DOMAIN dir.entries

\* os::symlink_plugin (std::os::unix::fs::symlink): creates the link, or
\* fails with AlreadyExists when the name is taken, or with another error
\* when sl_ok is false.
CreateSymlink(dir, plugin_path, sl_ok) ==
    IF sl_ok /\ ~Occupied(dir, plugin_path.name)
    THEN [dir |-> [dir EXCEPT !.entries =
                    [n \in DOMAIN dir.entries \cup {plugin_path.name} |->
                        IF n = plugin_path.name
                        THEN [kind |-> "symlink", target |-> plugin_path]
                        ELSE dir.entries[n]]],
          result |-> "ok"]
    ELSE [dir |-> dir, result |-> "err"]

\* `if symlink_path.exists()`
LinkPresent(dir, file_name, libs) == PathExists(dir, file_name, libs)

\* _symlink_plugin: the directory after the call and its result.  io says
\* which of fs::read_link, fs::remove_file and the symlink call succeed as
\* far as the operating system is concerned.
SymlinkPluginResult(dir, plugin_path, libs, io) ==
    IF ~dir.exists
    THEN [dir |-> dir, result |-> "err"]
    ELSE IF LinkPresent(dir, plugin_path.name, libs)
    THEN IF ~io.read_link \/ dir.entries[plugin_path.name].kind # "symlink"
         THEN [dir |-> dir, result |-> "err"]
         ELSE IF dir.entries[plugin_path.name].target # plugin_path
         THEN IF io.remove_file
              THEN CreateSymlink(RemoveFile(dir, plugin_path.name), plugin_path, io.symlink)
              ELSE [dir |-> dir, result |-> "err"]
         ELSE [dir |-> dir, result |-> "ok"]
    ELSE CreateSymlink(dir, plugin_path, io.symlink)

\* Which of the file system calls of _symlink_plugin succeed.
IoOutcomes == [read_link : BOOLEAN, remove_file : BOOLEAN, symlink : BOOLEAN]

\* One call of _symlink_plugin, as made by `cargo reaper build` and
\* `cargo reaper link`, which pass the path of a library that exists.
SymlinkPlugin ==
    /\ pc = "idle"
    /\ \E plugin_path \in built, io \in IoOutcomes :
        LET r == SymlinkPluginResult(user_plugins, plugin_path, built, io)
        IN  /\ user_plugins' = r.dir
            /\ last' = [op |-> "symlink", names |-> {plugin_path.name},
                        dry_run |-> FALSE, failures |-> IF r.result = "ok" THEN 0 ELSE 1,
                        before |-> user_plugins, path |-> plugin_path, io |-> io]
    /\ built' = built
    /\ UNCHANGED projVars
    /\ UNCHANGED runVars

\* cargo builds or removes plugin libraries in the target directories.
TargetDirChanges ==
    /\ pc = "idle"
    /\ \E libs \in SUBSET PluginPaths :
        /\ libs # built
        /\ built' = libs
    /\ UNCHANGED <<user_plugins, last, projVars>>
    /\ UNCHANGED runVars

\* No run is in progress: the run variables are parked.
IdleRun ==
    /\ cfg = [headless |-> FALSE, has_timeout |-> FALSE, timeout |-> 0,
              window_title |-> FALSE, keep_going |-> FALSE,
              override_binary |-> FALSE, on_path |-> FALSE, global_default |-> FALSE,
              display |-> DEFAULT_XSERVER_DISPLAY, stdio |-> <<"null", "inherit", "inherit">>]
    /\ resolved = ""
    /\ pc = "idle"
    /\ reaper = "none"
    /\ xvfb = "none"
    /\ exit_code = 0
    /\ kae = [code |-> 0, idx |-> 0]
    /\ now = 0
    /\ start = 0
    /\ window = FALSE
    /\ locatable = FALSE
    /\ found = FALSE
    /\ cause = ""
    /\ spawned = <<>>
    /\ xdotool = "none"
    /\ trace = <<>>
    /\ err = ""
    /\ outcome = "running"
    /\ tool_exit = 0
    /\ search_ticks = 0

InitFs ==
    /\ IdleRun
    /\ user_plugins \in UserPluginsDirs
    /\ last = NoCall
    /\ built \in SUBSET PluginPaths
    /\ ancestors = <<>>
    /\ current_dir = 0
    /\ project = NoProject

NextFs ==
    \/ RemovePluginSymlink
    \/ Clean
    \/ SymlinkPlugin
    \/ TargetDirChanges

SpecFs == InitFs /\ [][NextFs]_vars

\* ------------------------------------------------------ the project root
\* A third specification: find_project_root followed by
\* ReaperPluginConfig::load, from any start directory and any content of
\* its ancestors.  The file system does not change during the lookup.

\* What a name is in a directory: nothing, a file, or a directory.
EntryKinds == {"absent", "file", "dir"}

\* The three names the lookup reads in a directory.
Directories == [cargo : {"absent", "file"}, dot_reaper : EntryKinds, reaper : EntryKinds]

\* The chains of directories from the root to a start directory.
AncestorChains == UNION {[1..n -> Directories] : n \in 1..(MaxDepth + 1)}

\* Path::is_file and Path::exists
IsFile(kind) == kind = "file"
Exists(kind) == kind # "absent"

\* Variant of IsProjectRoot with the other grouping of && and ||.
IsProjectRoot_regrouped(d) ==
    IsFile(d.cargo) /\ (IsFile(d.dot_reaper) \/ IsFile(d.reaper))

\* `current_dir.join("Cargo.toml").is_file()
\*     && current_dir.join(".reaper.toml").is_file()
\*     || current_dir.join("reaper.toml").is_file()`
IsProjectRoot(d) ==
    (IsFile(d.cargo) /\ IsFile(d.dot_reaper)) \/ IsFile(d.reaper)

\* `CONFIG_FILE_NAMES.iter().map(..).find(|config_path| config_path.exists())`:
\* the first of .reaper.toml and reaper.toml that exists, "none" for None.
FindConfigFile(d) ==
    IF Exists(d.dot_reaper) THEN ".reaper.toml"
    ELSE IF Exists(d.reaper) THEN "reaper.toml" ELSE "none"

\* The kind of a config file name in a directory.
KindOf(d, name) == IF name = ".reaper.toml" THEN d.dot_reaper ELSE d.reaper

\* `let mut current_dir = env::current_dir()?;`
CurrentDir ==
    /\ pc = "idle"
    /\ project.pc = "start"
    /\ \/ /\ current_dir' = Len(ancestors)
          /\ project' = [project EXCEPT !.pc = "find"]
       \/ /\ current_dir' = current_dir
          /\ project' = [project EXCEPT !.pc = "root_err"]
    /\ UNCHANGED <<ancestors, user_plugins, last, built>>
    /\ UNCHANGED runVars

\* One iteration of the loop of find_project_root: return the directory, or
\* pop a component, or break at the root and bail.
FindProjectRootStep ==
    /\ pc = "idle"
    /\ project.pc = "find"
    /\ IF IsProjectRoot(ancestors[current_dir])
       THEN /\ project' = [project EXCEPT !.pc = "found", !.root = current_dir]
            /\ current_dir' = current_dir
       ELSE IF current_dir > 1
       THEN /\ current_dir' = current_dir - 1
            /\ project' = project
       ELSE /\ current_dir' = current_dir
            /\ project' = [project EXCEPT !.pc = "root_err"]
    /\ UNCHANGED <<ancestors, user_plugins, last, built>>
    /\ UNCHANGED runVars

\* ReaperPluginConfig::load(&project_root): the unwrap panics on None;
\* reading or parsing the file found can fail.
Load ==
    /\ pc = "idle"
    /\ project.pc = "found"
    /\ LET config_file == FindConfigFile(ancestors[project.root]) IN
        IF config_file = "none"
        THEN project' = [project EXCEPT !.pc = "panicked"]
        ELSE \E read_ok \in BOOLEAN :
                project' = [project EXCEPT
                    !.pc = IF read_ok /\ IsFile(KindOf(ancestors[project.root], config_file))
                           THEN "loaded" ELSE "load_err",
                    !.config_file = config_file]
    /\ UNCHANGED <<ancestors, current_dir, user_plugins, last, built>>
    /\ UNCHANGED runVars

InitProj ==
    /\ IdleRun
    /\ user_plugins = [exists |-> FALSE, entries |-> <<>>]
    /\ last = NoCall
    /\ built = {}
    /\ ancestors \in AncestorChains
    /\ current_dir = 0
    /\ project = [pc |-> "start", root |-> 0, config_file |-> ""]

NextProj ==
    \/ CurrentDir
    \/ FindProjectRootStep
    \/ Load

\* The lookup is not suspended for good.
SpecProj == InitProj /\ [][NextProj]_vars /\ WF_vars(NextProj)

TypeOK ==
    /\ cfg \in Configs
    /\ reaper \in ProcStates
    /\ xvfb \in ProcStates
    /\ exit_code \in {0, 1}
    /\ outcome \in {"running", "ok", "err", "forced"}
    /\ tool_exit \in {0, 1}
    /\ now >= start
    /\ user_plugins \in UserPluginsDirs
    /\ last.op \in {"none", "remove", "clean", "symlink"}
    /\ built \subseteq PluginPaths
    /\ current_dir \in 0..(MaxDepth + 1)
    /\ project.pc \in {"idle", "start", "find", "found", "root_err",
                       "loaded", "load_err", "panicked"}

\* ====================================================================
\* Properties
\* ====================================================================
LastOp == IF trace = <<>> THEN "" ELSE trace[Len(trace)]

\* The last n calls of the trace.
LastOps(n) == IF Len(trace) < n THEN <<>>
           ELSE SubSeq(trace, Len(trace) - n + 1, Len(trace))

KeepGoingRun == cfg.headless /\ cfg.has_timeout /\ cfg.window_title /\ cfg.keep_going
StopAtWindowRun == cfg.headless /\ cfg.has_timeout /\ cfg.window_title /\ ~cfg.keep_going
NoTitleTimeoutRun == cfg.has_timeout /\ ~cfg.window_title

\* C1: forced termination is ordered.  Xvfb is never killed (on any path,
\* whatever fails) while the target is not reaped; Xvfb is waited on only
\* after it was killed; and a forced exit comes directly after the calls
\* kill target, wait target, kill Xvfb, wait Xvfb, in that order, with both
\* children reaped and with the code kill_and_exit was given.
C1_KillOrder ==
    /\ Did("kill_xvfb") => reaper = "reaped"
    /\ (cfg.has_timeout /\ Did("wait_xvfb")) =>
            FirstIdx("kill_xvfb") # 0 /\ FirstIdx("kill_xvfb") < FirstIdx("wait_xvfb")
    /\ outcome = "forced" =>
        /\ LastOps(5) = <<"kill_reaper", "wait_reaper", "kill_xvfb", "wait_xvfb", "exit">>
        /\ reaper = "reaped"
        /\ xvfb = "reaped"
        /\ tool_exit = kae.code

\* A forced exit with code 1 after the timeout, reached through kill_and_exit.
C1_Witness ==
    /\ outcome = "forced"
    /\ tool_exit = 1
    /\ cause = "timeout"
    /\ xvfb = "reaped"

\* C2: a run without --timeout never kills a child and never calls
\* process::exit; when it returns Ok the target has been reaped and, with
\* --headless, Xvfb has been reaped after it.  (A run that returns an error,
\* from a failed spawn or wait, is a fatal end and not a return in this sense.)
C2_NoTimeoutNoForce ==
    ~cfg.has_timeout =>
        /\ ~Did("kill_reaper")
        /\ ~Did("kill_xvfb")
        /\ ~Did("exit")
        /\ outcome # "forced"
        /\ outcome = "ok" =>
            /\ reaper = "reaped"
            /\ cfg.headless =>
                /\ xvfb = "reaped"
                /\ LastOps(2) = <<"wait_reaper", "wait_xvfb">>

\* A headless run without a timeout that has returned Ok.
C2_Witness ==
    /\ ~cfg.has_timeout
    /\ cfg.headless
    /\ outcome = "ok"
    /\ xvfb = "reaped"

\* C3: with --timeout, --locate-window and --keep-going, finding the window
\* does not start the termination: kill_and_exit is entered only from the
\* poll of the target, when the target has exited or the timeout has elapsed,
\* the run never returns Ok on its own, and the code handed to kill_and_exit
\* (and the exit status of a forced exit) is 0 exactly if xdotool has
\* reported success, else 1.
C3_KeepGoing ==
    KeepGoingRun =>
        /\ cause # "window"
        /\ outcome # "ok"
        /\ (pc = "locate" \/ pc = "try_wait" \/ pc = "sleep") =>
                (exit_code = 0 <=> found)
        /\ (pc = "kill_and_exit" /\ kae.idx = 1) =>
            /\ LastOp = "try_wait"
            /\ \/ cause = "exit" /\ reaper = "reaped"
               \/ cause = "timeout" /\ now - start >= cfg.timeout
        /\ (pc = "kill_and_exit" \/ pc = "kae_exit") =>
                (kae.code = 0 <=> found) /\ kae.code \in {0, 1}
        /\ outcome = "forced" =>
                (tool_exit = 0 <=> found) /\ tool_exit \in {0, 1}

\* The window was found in one iteration, the run went on through a sleep
\* and was ended with code 0 when the target exited.
C3_Witness ==
    /\ KeepGoingRun
    /\ outcome = "forced"
    /\ tool_exit = 0
    /\ found
    /\ cause = "exit"
    /\ \E i \in DOMAIN trace : \E j \in DOMAIN trace :
            i < j /\ trace[i] = "locate" /\ trace[j] = "sleep"
            /\ \A k \in (i + 1)..Len(trace) : trace[k] # "locate"

\* C4: with --timeout and --locate-window but without --keep-going, an
\* iteration at whose locator step a search for the window succeeds hands
\* over to kill_and_exit with code 0 in that same iteration: it goes on
\* neither to the poll of the target nor to the sleep, so the run ends
\* within one poll interval of the window becoming detectable, without
\* waiting for the timeout, and an exit caused by the window has status 0.
C4_StopAtWindow ==
    StopAtWindowRun =>
        /\ (pc = "try_wait" \/ pc = "sleep") => ~locatable
        /\ cause = "window" => kae.code = 0

\* C5: in a headless run with --timeout, a forced exit at the timeout has
\* status 1 if a window title is configured and the window was never found,
\* and status 0 only if no title is configured or the window was found.
C5_TimeoutCode ==
    (cfg.headless /\ cfg.has_timeout /\ cause = "timeout" /\ outcome = "forced") =>
        /\ (cfg.window_title /\ ~found) => tool_exit = 1
        /\ tool_exit = 0 => (~cfg.window_title \/ found)

\* C6: in a headless run with --timeout and --locate-window, when a poll
\* finds the target exited kill_and_exit is given 0 if the window was found
\* before and 1 otherwise, with and without --keep-going.
C6_ExitBeforeReady ==
    (cfg.headless /\ cfg.has_timeout /\ cfg.window_title /\ cause = "exit") =>
        kae.code = (IF found THEN 0 ELSE 1)

\* C7: in a run with --timeout and no window title the loop never sleeps
\* again once the timeout has elapsed, and when the timeout ends the run
\* (no OS error) the target was killed and reaped, with --headless Xvfb was
\* killed and reaped after it by kill_and_exit, and the exit status is 0.
C7_TimeoutNoTitle ==
    NoTitleTimeoutRun =>
        /\ pc = "sleep" => now - start < cfg.timeout
        /\ (cause = "timeout" /\ (outcome = "ok" \/ outcome = "forced")) =>
            /\ Did("kill_reaper")
            /\ reaper = "reaped"
            /\ tool_exit = 0
            /\ cfg.headless =>
                /\ outcome = "forced"
                /\ xvfb = "reaped"
                /\ LastOps(5) = <<"kill_reaper", "wait_reaper",
                                  "kill_xvfb", "wait_xvfb", "exit">>
            /\ ~cfg.headless =>
                LastOps(3) = <<"try_wait", "kill_reaper", "wait_reaper">>

\* A headless run without title that slept, timed out and was forced to exit 0.
C7_Witness ==
    /\ NoTitleTimeoutRun
    /\ cfg.headless
    /\ cause = "timeout"
    /\ outcome = "forced"
    /\ tool_exit = 0
    /\ Did("sleep")
    /\ xvfb = "reaped"

\* C8: in a run with --timeout and no window title whose target exits on its
\* own, no child is killed, there is no forced exit, and with --headless
\* Xvfb has been reaped when the run returns.
C8_NaturalExit ==
    (NoTitleTimeoutRun /\ cause = "exit") =>
        /\ ~Did("kill_reaper")
        /\ ~Did("kill_xvfb")
        /\ outcome # "forced"
        /\ (cfg.headless /\ outcome = "ok") => xvfb = "reaped"

\* C9: with --headless, when Xvfb was spawned and the spawn of the target
\* fails, Xvfb has been killed and reaped when the error is returned, and
\* neither the locator nor the poll has run.
C9_SpawnFailTeardown ==
    (cfg.headless /\ err = "spawn_reaper") =>
        /\ Did("kill_xvfb")
        /\ xvfb = "reaped"
        /\ ~Did("try_wait")
        /\ ~Did("locate")

\* C10: when a kill or wait of kill_and_exit fails, that call is the last
\* call of the run: the calls of kill_and_exit made are exactly its steps up
\* to the failing one, process::exit is not called, and the run returns the
\* error (exit status 1 through main, not the code given to kill_and_exit).
C10_TeardownError ==
    (kae.idx >= 1 /\ err # "") =>
        /\ pc = "done"
        /\ outcome = "err"
        /\ tool_exit = 1
        /\ ~Did("exit")
        /\ err = kill_and_exit_steps[kae.idx]
        /\ LastOps(kae.idx) = SubSeq(kill_and_exit_steps, 1, kae.idx)

\* Killing Xvfb failed inside kill_and_exit: Xvfb still runs, no exit call.
C10_Witness ==
    /\ kae.idx = 3
    /\ err = "kill_xvfb"
    /\ reaper = "reaped"
    /\ xvfb = "running"
    /\ outcome = "err"

\* C11: a run that ends with a fatal error (executable not found, failed
\* spawn, failed poll, kill or wait) gives the tool an exit status that is
\* neither 0 nor 1, the two codes of a forced exit.
C11_FatalDistinct ==
    outcome = "err" => (tool_exit # 0 /\ tool_exit # 1)

\* C12: the executable is chosen by strict priority.  With --exec it is the
\* override and no lookup is made; else it is the `reaper` found on the
\* search path; else the global default.  When none of them resolves, the
\* run returns the not-found error and nothing has been spawned.
C12_Resolver ==
    resolved # "" =>
        /\ cfg.override_binary =>
                resolved = "override" /\ ~Did("which") /\ ~Did("which_global")
        /\ (~cfg.override_binary /\ cfg.on_path) =>
                resolved = "path" /\ Did("which") /\ ~Did("which_global")
        /\ (~cfg.override_binary /\ ~cfg.on_path /\ cfg.global_default) =>
                resolved = "global" /\ Did("which") /\ Did("which_global")
        /\ (~cfg.override_binary /\ ~cfg.on_path /\ ~cfg.global_default) =>
            /\ resolved = "none"
            /\ outcome = "err"
            /\ err = "locate"
            /\ tool_exit # 0
            /\ ~Did("spawn_xvfb")
            /\ ~Did("spawn_reaper")
            /\ reaper = "none"
            /\ xvfb = "none"
        /\ (Did("spawn_xvfb") \/ Did("spawn_reaper")) => resolved # "none"

\* Nothing resolves although `reaper` lies in neither place: both lookups
\* were made and the run has failed before any spawn.
C12_Witness ==
    /\ resolved = "none"
    /\ Did("which_global")
    /\ outcome = "err"
    /\ trace = <<"which", "which_global">>

Spawned(child) == child \in DOMAIN spawned

\* C13: with --headless Xvfb is spawned before the target, the target is
\* spawned only when the spawn of Xvfb succeeded, Xvfb is bound to the
\* configured display, and both children get that display in DISPLAY and the
\* same three stdio settings.
C13_HeadlessLaunch ==
    cfg.headless =>
        /\ Did("spawn_reaper") =>
            /\ FirstIdx("spawn_xvfb") # 0
            /\ FirstIdx("spawn_xvfb") < FirstIdx("spawn_reaper")
            /\ Spawned("xvfb")
        /\ err = "spawn_xvfb" => (~Did("spawn_reaper") /\ reaper = "none")
        /\ Spawned("xvfb") =>
            /\ spawned["xvfb"].cmd.display_arg = cfg.display
            /\ spawned["xvfb"].cmd.env_display = cfg.display
            /\ spawned["xvfb"].cmd.stdio = cfg.stdio
        /\ Spawned("reaper") =>
            /\ Spawned("xvfb")
            /\ spawned["xvfb"].at <= spawned["reaper"].at
            /\ spawned["reaper"].cmd.env_display = spawned["xvfb"].cmd.env_display
            /\ spawned["reaper"].cmd.stdio = spawned["xvfb"].cmd.stdio

\* Both children run on a display other than the default, with piped stdio.
C13_Witness ==
    /\ cfg.headless
    /\ cfg.display # DEFAULT_XSERVER_DISPLAY
    /\ cfg.stdio = <<"piped", "piped", "null">>
    /\ Spawned("xvfb")
    /\ Spawned("reaper")
    /\ reaper = "running"
    /\ xvfb = "running"

TitleRun == cfg.headless /\ cfg.has_timeout /\ cfg.window_title

\* C14: in a headless run with --timeout and --locate-window, with or
\* without --keep-going, every iteration that reaches the poll of the target
\* while the window has not been found has invoked xdotool just before, and
\* xdotool is not invoked any more once it has reported success.
C14_LocatorEachIteration ==
    /\ [](TitleRun => ((pc = "try_wait" /\ ~found) => LastOp = "locate"))
    /\ [][(TitleRun /\ found) => trace' # Append(trace, "locate")]_vars

\* C15: a removal with dry_run = true changes nothing in UserPlugins.  After
\* a call of _remove_plugin_symlink with dry_run the directory is what it was
\* before the call, and the call returned Ok exactly if the directory held a
\* symlink of that file name; after the removal loop of `cargo reaper clean`
\* with dry_run the directory is unchanged as well, and the failures counted
\* are the selected plugins without a symlink.
C15_DryRunRemoval ==
    (last.op # "none" /\ last.dry_run) =>
        /\ user_plugins = last.before
        /\ last.failures =
                Cardinality({n \in last.names : ~IsSymlink(last.before, n)})

\* A dry-run removal of a symlink that exists has returned Ok, and the
\* symlink is still in the directory.
C15_Witness ==
    /\ last.op = "remove"
    /\ last.dry_run
    /\ last.failures = 0
    /\ \E n \in last.names : IsSymlink(user_plugins, n)

\* The clock of a run with --timeout was started once every required
\* process was spawned, and the loop sleeps only while the elapsed time is
\* below the timeout.
ClockAfterSpawns ==
    /\ (cfg.has_timeout /\ Spawned("reaper")) =>
        /\ start >= spawned["reaper"].at
        /\ cfg.headless => (Spawned("xvfb") /\ start >= spawned["xvfb"].at)
    /\ (cfg.has_timeout /\ pc = "sleep") => now - start < cfg.timeout

Alive == Cardinality({c \in {"reaper", "xvfb", "xdotool"} :
            \/ c = "reaper" /\ reaper = "running"
            \/ c = "xvfb" /\ xvfb = "running"
            \/ c = "xdotool" /\ xdotool = "running"})

\* Number of calls of op made so far.
Calls(op) == Cardinality({i \in DOMAIN trace : trace[i] = op})

\* C17: in every state of a run at most two processes spawned by the tool
\* are alive: there is never a third child while the target and the
\* display-server run.
C17_TwoChildren == Alive <= 2

\* C17, amended: the tool spawns one target and at most one display-server;
\* the only other child is the xdotool of a window search, which is alive
\* only while the supervisor is blocked in that search (a headless run with
\* --timeout and a window title), so that three children are alive during a
\* search and at most two at every other point of the run.
C17_TwoChildrenAmended ==
    /\ Calls("spawn_reaper") <= 1
    /\ Calls("spawn_xvfb") <= 1
    /\ ~cfg.headless => xvfb = "none"
    /\ xdotool = "running" => (pc = "locate_output" /\ TitleRun /\ LastOp = "locate")
    /\ pc # "locate_output" => Alive <= 2

\* A window search is in progress while the target and Xvfb both run.
C17_Witness ==
    /\ pc = "locate_output"
    /\ xdotool = "running"
    /\ reaper = "running"
    /\ xvfb = "running"

\* The supervisor has killed a process.
Killed == Did("kill_reaper") \/ Did("kill_xvfb")

\* C18: every run in which the supervisor killed a process and which ended
\* without an OS error ended in a forced exit with code 0 or 1, and every run
\* that returned normally killed no process, foreground runs included.
C18_KillMeansForced ==
    /\ (Killed /\ pc = "done" /\ err = "") =>
            (outcome = "forced" /\ tool_exit \in {0, 1})
    /\ outcome = "ok" => ~Killed

\* C18, amended: in a headless run every kill is made by kill_and_exit, a
\* run that killed and met no OS error ends in a forced exit with code 0 or
\* 1, and a run that returned normally killed nothing.  A foreground run
\* never exits by force: at its timeout it kills the target, waits for it
\* and returns normally with exit status 0; a foreground run that returned
\* without the timeout having elapsed killed nothing.
C18_KillMeansForcedAmended ==
    /\ outcome = "forced" =>
        /\ cfg.headless /\ cfg.has_timeout
        /\ Did("kill_reaper") /\ Did("kill_xvfb")
        /\ tool_exit \in {0, 1}
    /\ cfg.headless =>
        /\ (Killed /\ pc = "done" /\ err = "") => outcome = "forced"
        /\ outcome = "ok" => ~Killed
    /\ ~cfg.headless =>
        /\ ~Did("kill_xvfb") /\ ~Did("exit")
        /\ Did("kill_reaper") => (cfg.has_timeout /\ cause = "timeout")
        /\ (outcome = "ok" /\ cause = "timeout") =>
            /\ LastOps(3) = <<"try_wait", "kill_reaper", "wait_reaper">>
            /\ reaper = "reaped"
            /\ tool_exit = 0
        /\ (outcome = "ok" /\ cause # "timeout") => ~Killed

\* A foreground run reached its timeout after a sleep, killed the target,
\* waited for it and returned normally.
C18_Witness ==
    /\ ~cfg.headless
    /\ cause = "timeout"
    /\ Did("sleep")
    /\ Did("kill_reaper")
    /\ outcome = "ok"
    /\ tool_exit = 0

\* C19: when try_wait returns an OS error in an iteration of a timeout loop
\* the loop ends there: the failed poll is the last call the run makes (no
\* locator invocation, poll, sleep or kill after it), no forced exit is
\* performed, and the run returns the error.
C19_TryWaitError ==
    err = "try_wait" =>
        /\ cfg.has_timeout
        /\ pc = "done"
        /\ outcome = "err"
        /\ tool_exit = 1
        /\ LastOp = "try_wait"
        /\ ~Did("exit")
        /\ xdotool # "running"

\* The poll failed in a later iteration of a headless loop, after a window
\* search and a sleep.
C19_Witness ==
    /\ err = "try_wait"
    /\ Did("sleep")
    /\ Did("locate")
    /\ Calls("try_wait") >= 2
    /\ reaper = "running"

\* C20: the window locator is invoked only in headless runs with a timeout
\* and a window title.  In a foreground run and in a headless run without
\* a timeout, with or without a window title, no xdotool is ever started,
\* nothing is recorded as found, the run is never ended because of the
\* window or by a forced exit, and it returns Ok exactly as a run without
\* a title does: after the wait on the target (and then on Xvfb), or after
\* the foreground loop saw the exit or the timeout.
C20_LocatorOnlyInLoop ==
    /\ (Did("locate") \/ xdotool # "none" \/ found \/ cause = "window") => TitleRun
    /\ (~cfg.headless \/ ~cfg.has_timeout) =>
        /\ exit_code = 0
        /\ search_ticks = 0
        /\ pc \notin {"locate_output", "kill_and_exit", "kae_exit"}
        /\ outcome # "forced"
    /\ (cfg.headless /\ ~cfg.has_timeout) =>
        /\ pc # "locate"
        /\ cause = ""
        /\ outcome = "ok" => LastOps(2) = <<"wait_reaper", "wait_xvfb">>

\* A headless run without a timeout but with a window title: both children
\* were spawned, the window of the target is on the display, and the
\* supervisor is about to block in the wait on the target.
C20_Witness ==
    /\ cfg.headless
    /\ ~cfg.has_timeout
    /\ cfg.window_title
    /\ Spawned("reaper")
    /\ window
    /\ pc = "wait_reaper"

\* The lifecycle state of a position of the supervisor: 0 Starting,
\* 1 Running, 2 Terminating (a terminal condition was met), 3 Exited.
Lifecycle(p) ==
    CASE p \in {"resolve", "spawn_xvfb", "spawn_reaper"} -> 0
      [] p \in {"locate", "locate_output", "try_wait", "sleep", "wait_reaper"} -> 1
      [] p \in {"kill_and_exit", "kae_exit", "fg_kill", "fg_wait", "wait_xvfb"} -> 2
      [] OTHER -> 3

\* The calls of the Running state of a timeout loop.
LoopCalls == {"locate", "try_wait", "sleep"}

\* C21: the lifecycle of a run only moves forward.  The loop sleeps, and so
\* re-enters Running, exactly after a poll that found the target running
\* and the timeout not elapsed, with no terminal condition recorded;
\* termination is entered at most once (each kill and the exit are called
\* at most once); and once a terminal condition has started the
\* termination no locator invocation, poll or sleep is made any more.
C21_Lifecycle ==
    /\ [][Lifecycle(pc') >= Lifecycle(pc)]_vars
    /\ [](pc = "sleep" =>
            /\ LastOp = "try_wait"
            /\ cause = ""
            /\ reaper # "reaped"
            /\ now - start < cfg.timeout)
    /\ []((cfg.has_timeout /\ LastOp = "try_wait" /\ cause = "" /\ err = "")
            => pc = "sleep")
    /\ [](Calls("kill_reaper") <= 1 /\ Calls("kill_xvfb") <= 1 /\ Calls("exit") <= 1)
    /\ [](Lifecycle(pc) = 2 => cause # "" \/ ~cfg.has_timeout)
    /\ [][(cause # "" \/ Lifecycle(pc) >= 2) =>
            \A op \in LoopCalls : trace' # Append(trace, op)]_vars

\* A run went twice through Running (a sleep between two polls), met the
\* timeout, went through the termination and exited.
C21_Witness ==
    /\ Calls("sleep") >= 2
    /\ cause = "timeout"
    /\ outcome = "forced"
    /\ Calls("kill_reaper") = 1

\* C22: every run with a timeout ends (forced exit, normal return or
\* error) whatever the target, Xvfb, the window and the locator do, as long
\* as the supervisor's calls return and its sleeps end.
C22_TimeoutRunEnds == (cfg.has_timeout /\ pc = "resolve") ~> (pc = "done")

\* A run whose target never exited was ended by the timeout after the loop
\* had polled and slept more than once.
C22_Witness ==
    /\ cfg.has_timeout
    /\ pc = "done"
    /\ cause = "timeout"
    /\ Calls("try_wait") >= 3
    /\ now - start >= cfg.timeout

HeadlessNoTimeoutRun == cfg.headless /\ ~cfg.has_timeout

\* C24: in a headless run without a timeout the tool kills nothing.  Once
\* the target is reaped the supervisor stays in the wait on Xvfb for as long
\* as Xvfb runs (it leaves it only if the wait itself fails), so the run
\* returns Ok only after Xvfb has exited by itself; and when the wait on the
\* target fails the run returns that error with Xvfb neither waited on nor
\* killed.
C24_NoTimeoutXvfb ==
    /\ [](HeadlessNoTimeoutRun =>
            /\ ~Killed
            /\ ~Did("exit")
            /\ outcome = "ok" => (xvfb = "reaped" /\ reaper = "reaped")
            /\ err = "wait_reaper" =>
                /\ pc = "done"
                /\ LastOp = "wait_reaper"
                /\ ~Did("wait_xvfb")
                /\ xvfb \in {"running", "exited"})
    /\ [][(HeadlessNoTimeoutRun /\ pc = "wait_xvfb" /\ xvfb = "running") =>
            \/ pc' = "wait_xvfb" /\ outcome' = "running" /\ trace' = trace
            \/ err' = "wait_xvfb" /\ xvfb' = "running"]_vars
    /\ [][(HeadlessNoTimeoutRun /\ xvfb = "running" /\ xvfb' # "running") =>
            (xvfb' = "exited" /\ trace' = trace)]_vars

\* The target has exited and was reaped, Xvfb still runs, and the
\* supervisor is blocked in the wait on it.
C24_Witness ==
    /\ HeadlessNoTimeoutRun
    /\ pc = "wait_xvfb"
    /\ reaper = "reaped"
    /\ xvfb = "running"

\* C25: in a poll the exit of the target is looked at before the clock.  A
\* poll that succeeds on an exited target records the exit, never the
\* timeout, also when the timeout has elapsed; with no window title the run
\* then returns normally, without a kill and without a forced exit.  The
\* timeout is recorded only by a poll that found the target running, so a
\* kill caused by the timeout follows at least one poll, also when the
\* timeout is zero.
C25_ExitBeforeTimeout ==
    /\ [][(pc = "try_wait" /\ reaper = "exited" /\ trace' # trace /\ err' = "") =>
            (cause' = "exit" /\ reaper' = "reaped")]_vars
    /\ [][(cause = "" /\ cause' = "timeout") =>
            (reaper = "running" /\ trace' = Append(trace, "try_wait"))]_vars
    /\ []((cause = "exit" /\ ~cfg.window_title) =>
            (outcome = "ok" /\ ~Killed /\ ~Did("exit")))
    /\ []((cfg.has_timeout /\ Did("kill_reaper") /\ cause = "timeout") =>
            (FirstIdx("try_wait") # 0 /\ FirstIdx("try_wait") < FirstIdx("kill_reaper")))

\* With no window title the target exited after the deadline and before the
\* next poll; the run returned normally.
C25_Witness ==
    /\ cfg.has_timeout
    /\ ~cfg.window_title
    /\ cause = "exit"
    /\ Did("sleep")
    /\ now - start >= cfg.timeout
    /\ outcome = "ok"

\* A run with timeout zero whose target was killed after its first poll.
C25_WitnessZero ==
    /\ cfg.has_timeout
    /\ cfg.timeout = 0
    /\ cause = "timeout"
    /\ Did("kill_reaper")
    /\ Calls("try_wait") = 1

\* What a step leaves of the loop's state, the search itself apart.
LoopStateAfter == <<pc, exit_code, found, cause, kae, outcome, tool_exit, err,
                    reaper, xvfb, locatable>>'

\* C26: a window search that cannot be run (xdotool cannot be spawned, or
\* its output cannot be collected) is treated exactly like a search that
\* reports no window: exit_code is unchanged, nothing is recorded as found,
\* no error is returned and the loop goes on with the poll of the target.
C26_LocatorFailure ==
    /\ [](err # "xdotool")
    /\ [][((xdotool' = "failed" /\ trace' = Append(trace, "locate"))
             \/ (pc = "locate_output" /\ pc' # pc /\ ~locatable')) =>
            LoopStateAfter = <<"try_wait", exit_code, found, cause, kae, outcome,
                               tool_exit, err, reaper, xvfb, FALSE>>]_vars
    /\ [](xdotool = "failed" => (TitleRun /\ Did("locate")))

\* With --keep-going a search could not be run although the window was on
\* the display; the loop went on to the poll with exit_code still 1.
C26_Witness ==
    /\ KeepGoingRun
    /\ xdotool = "failed"
    /\ window
    /\ pc = "try_wait"
    /\ exit_code = 1
    /\ outcome = "running"
    /\ Did("sleep")

\* C27: when the loop or the teardown is left with an I/O error nothing is
\* torn down any more.  After a failed try_wait no child was killed or
\* waited on; after a failed kill or wait of the target in kill_and_exit
\* Xvfb was neither killed nor waited on; in both cases the run returns the
\* error, makes no further call, and the children are left as they were
\* (running, unless they exited by themselves).
C27_NoTeardownAfterError ==
    /\ [](err = "try_wait" =>
            /\ outcome = "err"
            /\ ~Killed
            /\ ~Did("wait_reaper") /\ ~Did("wait_xvfb")
            /\ reaper \in {"running", "exited"}
            /\ cfg.headless => xvfb \in {"running", "exited"})
    /\ []((cfg.headless /\ cfg.has_timeout /\ err \in {"kill_reaper", "wait_reaper"}) =>
            /\ outcome = "err"
            /\ LastOp = err
            /\ ~Did("kill_xvfb") /\ ~Did("wait_xvfb") /\ ~Did("exit")
            /\ xvfb \in {"running", "exited"})
    /\ [][outcome = "err" => (trace' = trace /\ reaper' = reaper /\ xvfb' = xvfb)]_vars

\* kill_and_exit failed on the kill of the target at the timeout; the run
\* returned the error with the target and Xvfb both running.
C27_Witness ==
    /\ cfg.headless
    /\ err = "kill_reaper"
    /\ cause = "timeout"
    /\ outcome = "err"
    /\ reaper = "running"
    /\ xvfb = "running"

\* A poll failed in a headless loop; the run returned the error with the
\* target and Xvfb both running.
C27_WitnessPoll ==
    /\ cfg.headless
    /\ err = "try_wait"
    /\ outcome = "err"
    /\ reaper = "running"
    /\ xvfb = "running"

IsSymlinkTo(dir, plugin_path) ==
    /\ IsSymlink(dir, plugin_path.name)
    /\ dir.entries[plugin_path.name].target = plugin_path

\* No file system call of the last _symlink_plugin was made to fail.
IoFine == last.io = [read_link |-> TRUE, remove_file |-> TRUE, symlink |-> TRUE]

\* C29: _symlink_plugin converges to one link per plugin file name.  After
\* a call: if UserPlugins held a link of that name to the given path, the
\* directory is unchanged; if it held a link of that name to another path
\* (and no file system call failed for a reason of its own), the link now
\* points to the given path and the call returned Ok; a call that returned
\* Ok leaves the link of that name pointing to the given path, all other
\* entries as they were; and if the directory did not exist the call failed
\* and the directory still does not exist.
C29_SymlinkConverges ==
    last.op = "symlink" =>
        /\ IsSymlinkTo(last.before, last.path) => user_plugins = last.before
        /\ (IsSymlink(last.before, last.path.name)
              /\ ~IsSymlinkTo(last.before, last.path) /\ IoFine) =>
                (last.failures = 0 /\ IsSymlinkTo(user_plugins, last.path))
        /\ last.failures = 0 =>
            /\ IsSymlinkTo(user_plugins, last.path)
            /\ \A n \in PluginFileNames \ {last.path.name} :
                    /\ Occupied(user_plugins, n) <=> Occupied(last.before, n)
                    /\ Occupied(user_plugins, n) =>
                            user_plugins.entries[n] = last.before.entries[n]
        /\ ~last.before.exists =>
            (last.failures = 1 /\ user_plugins = last.before)

\* The directory holds Cargo.toml and .reaper.toml, or reaper.toml, as files.
HoldsProject(i) ==
    \/ ancestors[i].cargo = "file" /\ ancestors[i].dot_reaper = "file"
    \/ ancestors[i].reaper = "file"

\* C30: find_project_root ends for every start directory; the directory it
\* returns is the nearest one, from the start directory up to the root,
\* that holds (Cargo.toml and .reaper.toml) or reaper.toml, and it fails only
\* when none does (or the current directory cannot be read); and in every
\* directory it returns ReaperPluginConfig::load finds .reaper.toml or
\* reaper.toml existing there, so that its unwrap never panics.
C30_ProjectRoot ==
    /\ [](project.pc # "panicked")
    /\ [](project.pc \in {"found", "loaded", "load_err"} =>
            /\ project.root \in 1..Len(ancestors)
            /\ HoldsProject(project.root)
            /\ \A i \in (project.root + 1)..Len(ancestors) : ~HoldsProject(i))
    /\ [](project.pc \in {"loaded", "load_err"} =>
            /\ project.config_file \in {".reaper.toml", "reaper.toml"}
            /\ KindOf(ancestors[project.root], project.config_file) # "absent")
    /\ []((project.pc = "root_err" /\ current_dir # 0) =>
            \A i \in 1..Len(ancestors) : ~HoldsProject(i))
    /\ (project.pc = "start") ~> (project.pc \in {"loaded", "load_err", "root_err"})

\* The root was found above the start directory through reaper.toml alone,
\* and the config was loaded from it.
C30_Witness ==
    /\ project.pc = "loaded"
    /\ project.root < Len(ancestors)
    /\ project.config_file = "reaper.toml"
    /\ ancestors[project.root].cargo = "absent"

====
